---- MODULE Spec2Model ----
(***************************************************************************)
(* Model of hf-batch-downloader.py: main's scheduler (thread pool or       *)
(* sequential loop), download_model's gate and retry loop, and the         *)
(* post-processing pipeline with merge_gguf_parts on a per-job directory.  *)
(***************************************************************************)
EXTENDS Integers, Sequences, FiniteSets, TLC

(***************************************************************************)
(* Bounds of the explored configurations.                                  *)
(***************************************************************************)
MaxJobs == 3
MaxWorkers == 2
MaxRetries == 2
MaxRetriesJob == 5
MaxParts == 3
\* jobs plus retries of a run with several jobs
MaxLoad == 4

(***************************************************************************)
(* Program constants.                                                      *)
(***************************************************************************)
DefaultBackoff == 5
DefaultMinDisk == 60

(***************************************************************************)
(* File names are sequences of characters; Chars lists the characters the  *)
(* model uses in code-point order, so that comparing indices compares      *)
(* code points as Python's str comparison does.                            *)
(***************************************************************************)
Chars == <<"*", "-", ".", "/", "0", "1", "2", "3", "4", "5", "6", "a", "b", "c", "d", "e", "f", "g",
           "h", "i", "l", "m", "n", "o", "s", "t", "u", "x", "z">>

Ord(c) == CHOOSE i \in 1..Len(Chars) : Chars[i] = c

Min2(a, b) == IF a < b THEN a ELSE b

\* a < b for Python strings: the first differing character decides, a proper
\* prefix is smaller.
StrLess(a, b) ==
    LET m == Min2(Len(a), Len(b))
        diff == {i \in 1..m : a[i] # b[i]}
    IN  IF diff = {} THEN Len(a) < Len(b)
        ELSE LET i == CHOOSE x \in diff : \A y \in diff : x <= y
             IN  Ord(a[i]) < Ord(b[i])

\* sorted(S) for a set of distinct names.
Sorted(S) ==
    LET n == Cardinality(S)
    IN  [i \in 1..n |-> CHOOSE x \in S : Cardinality({y \in S : StrLess(y, x)}) = i - 1]

\* s occurs in name starting at index i.
OccursAt(name, s, i) ==
    /\ i >= 1
    /\ i + Len(s) - 1 <= Len(name)
    /\ \A k \in 1..Len(s) : name[i + k - 1] = s[k]

EndsWith(name, s) == OccursAt(name, s, Len(name) - Len(s) + 1)

OfInfix == <<"-", "o", "f", "-">>
GgufExt == <<".", "g", "g", "u", "f">>
PartOneMarker == <<"-", "0", "0", "0", "0", "1", "-", "o", "f", "-">>
FullSuffix == <<"-", "f", "u", "l", "l", ".", "g", "g", "u", "f">>

\* glob.glob(os.path.join(local_dir, "*-of-*.gguf")): a direct child of
\* local_dir, not hidden, holding "-of-" somewhere before a final ".gguf".
GlobMatch(name) ==
    /\ Len(name) >= 1
    /\ name[1] # "."
    /\ \A i \in 1..Len(name) : name[i] # "/"
    /\ \E i \in 1..Len(name) :
          /\ OccursAt(name, OfInfix, i)
          /\ i + Len(OfInfix) <= Len(name) - Len(GgufExt) + 1
          /\ EndsWith(name, GgufExt)

\* the listing taken in descending order
GlobPartsDescending(d) ==
    LET asc == Sorted({name \in DOMAIN d : GlobMatch(name)})
    IN  [i \in 1..Len(asc) |-> asc[Len(asc) + 1 - i]]

GlobParts(d) == Sorted({name \in DOMAIN d : GlobMatch(name)})

\* base_name.split('-00001-of-')[0]
SplitPrefix(name) ==
    LET hits == {i \in 1..Len(name) : OccursAt(name, PartOneMarker, i)}
    IN  IF hits = {} THEN name
        ELSE LET i == CHOOSE x \in hits : \A y \in hits : x <= y
             IN  SubSeq(name, 1, i - 1)

FullName(parts) == SplitPrefix(parts[1]) \o FullSuffix


(***************************************************************************)
(* Directories: a function from the names of the files present to their    *)
(* byte contents.                                                          *)
(***************************************************************************)
EmptyDir == [n \in {} |-> <<>>]

WriteFile(d, name, bytes) ==
    [n \in (DOMAIN d) \cup {name} |-> IF n = name THEN bytes ELSE d[n]]

RemoveFile(d, name) == [n \in (DOMAIN d) \ {name} |-> d[n]]

\* the directory after the files of src have been stored into d
Overlay(d, src) ==
    [n \in (DOMAIN d) \cup (DOMAIN src) |-> IF n \in DOMAIN src THEN src[n] ELSE d[n]]

RECURSIVE ConcatFiles(_, _)
ConcatFiles(d, names) ==
    IF names = <<>> THEN <<>>
    ELSE d[Head(names)] \o ConcatFiles(d, Tail(names))

RECURSIVE SumSizes(_, _)
SumSizes(d, names) ==
    IF names = {} THEN 0
    ELSE LET n == CHOOSE x \in names : TRUE
         IN  Len(d[n]) + SumSizes(d, names \ {n})

\* get_dir_size_gb, in bytes
DirSize(d) == SumSizes(d, DOMAIN d)

(***************************************************************************)
(* The remote repositories the model fetches from.                         *)
(***************************************************************************)
Digit(k) == CASE k = 0 -> "0" [] k = 1 -> "1" [] k = 2 -> "2" [] k = 3 -> "3" [] OTHER -> "4"

Pad5(k) == <<"0", "0", "0", "0", Digit(k)>>

PartName(prefix, k, n) == prefix \o <<"-">> \o Pad5(k) \o OfInfix \o Pad5(n) \o GgufExt

PrefixM == <<"m">>
PrefixN == <<"n">>
Prefixes == {PrefixM, PrefixN}

PlainName == <<"a", ".", "b", "i", "n">>

PartBytes(prefix, k) == <<(IF prefix = PrefixM THEN 10 ELSE 20) + k>>

PartFiles(prefix, ks, n) ==
    [name \in {PartName(prefix, k, n) : k \in ks} |->
        PartBytes(prefix, CHOOSE k \in ks : PartName(prefix, k, n) = name)]

RemotePlain == WriteFile(EmptyDir, PlainName, <<1>>)
RemoteOnePart == PartFiles(PrefixM, {1}, 1)
RemoteSplit == PartFiles(PrefixM, {1, 2}, 2)
RemoteTail == PartFiles(PrefixM, {2, 3}, 3)
RemoteTwoGroups == Overlay(PartFiles(PrefixM, {1, 2}, 2), PartFiles(PrefixN, {1, 2}, 2))

\* a tree with a file in a subdirectory
SubName == <<"s", "u", "b", "/", "b", ".", "b", "i", "n">>

RemoteTree == WriteFile(WriteFile(EmptyDir, PlainName, <<1>>), SubName, <<2>>)

(***************************************************************************)
(* Checksum manifests. A digest is kept as the algorithm and the bytes     *)
(* hashed (no two inputs collide) with the letter case its hex digits are  *)
(* written in; hexdigest() writes lower case.                              *)
(***************************************************************************)
HexDigest(alg, bytes) == [alg |-> alg, of |-> bytes, upper |-> FALSE]

UpperCase(digest) == [digest EXCEPT !.upper = TRUE]

Sha256Ext == <<".", "s", "h", "a", "2", "5", "6">>
Sha256SumExt == <<".", "s", "h", "a", "2", "5", "6", "s", "u", "m">>
Md5Ext == <<".", "m", "d", "5">>
Sha256Tail == <<"s", "h", "a", "2", "5", "6">>

ShaFileName == <<"a">> \o Sha256Ext
ShaSumFileName == <<"b">> \o Sha256SumExt
Md5FileName == <<"c">> \o Md5Ext
AbsentName == <<"z", ".", "b", "i", "n">>

\* a.bin with three checksum manifests: a matching sha256 line; a matching
\* sha256sum line in binary mode; and md5 lines with a digest in capitals,
\* a digest of other bytes, a file that is not there and a lone token
RemoteSums ==
    LET bin == <<1>>
        d1 == WriteFile(EmptyDir, PlainName, bin)
        d2 == WriteFile(d1, ShaFileName, << <<HexDigest("sha256", bin), PlainName>> >>)
        d3 == WriteFile(d2, ShaSumFileName,
                        << <<HexDigest("sha256", bin), <<"*">> \o PlainName>> >>)
    IN  WriteFile(d3, Md5FileName,
                  << <<UpperCase(HexDigest("md5", bin)), PlainName>>,
                     <<HexDigest("md5", <<2>>), PlainName>>,
                     <<HexDigest("md5", bin), AbsentName>>,
                     <<HexDigest("md5", bin)>> >>)

(***************************************************************************)
(* State.                                                                  *)
(***************************************************************************)
VARIABLES
    cfg,        \* args: N jobs, workers, retries, backoff, min_disk, skip flags
    remote,     \* per job, the files snapshot_download delivers
    mainPc,     \* main's position
    results,    \* main's results list
    summary,    \* the summary lines logged by main
    job,        \* per job, download_model's frame and its history
    dir,        \* per job, the files of local_dir
    doneOrder,  \* as_completed's waiter: uncollected futures in finishing order
    snap,       \* uncollected futures that had finished when as_completed was called
    faults,     \* the steps that can fail in this run's environment
    interrupted \* KeyboardInterrupt has been raised in the main thread

vars == <<cfg, remote, mainPc, results, summary, job, dir, doneOrder, snap, faults, interrupted>>

Jobs == 1..cfg.N

NoName == <<>>

NoneResult(j) == [repo |-> j, status |-> "None", error |-> "", size |-> 0, merged |-> NoName]

OkResult(j, size, merged) ==
    [repo |-> j, status |-> "ok", error |-> "", size |-> size, merged |-> merged]

FailedResult(j, err) ==
    [repo |-> j, status |-> "failed", error |-> err, size |-> 0, merged |-> NoName]

NewJob ==
    [pc |-> "queued", attempt |-> 0, ret |-> NoneResult(0), envWrites |-> 0, endedAt |-> 0,
     gateChecks |-> 0, freeSeen |-> -1,
     fetchCalls |-> 0, fetchOks |-> 0, fetchFails |-> 0, postFails |-> 0,
     waits |-> <<>>, lastErr |-> "", manifest |-> {}, checks |-> {},
     mparts |-> <<>>, midx |-> 0, mfull |-> NoName, merged |-> NoName,
     mentry |-> EmptyDir, mcopied |-> 0, mclosed |-> FALSE, mdeleted |-> {}, mdelFailed |-> {}]

Configs(Ns, Ws, Rs, Bs, Skips) ==
    [N : Ns, W : Ws, maxRetries : Rs, backoff : Bs, minDisk : {DefaultMinDisk},
     skipManifest : Skips, skipVerify : Skips]

InitWith(cfgs, remotes, faultSets) ==
    /\ cfg \in cfgs
    /\ faults \in faultSets
    /\ \E r \in remotes : remote = [j \in 1..cfg.N |-> r]
    /\ mainPc = "start"
    /\ results = <<>>
    /\ summary = <<>>
    /\ job = [j \in 1..cfg.N |-> NewJob]
    /\ dir = [j \in 1..cfg.N |-> EmptyDir]
    /\ doneOrder = <<>>
    /\ snap = {}
    /\ interrupted = FALSE

(***************************************************************************)
(* The runs explored. Jobs share nothing but the scheduler (each owns its  *)
(* directory), so the runs with several jobs use the plain repository and  *)
(* the gate and fetch failures or the user's interrupt, and the runs over  *)
(* the failures of every step, over the split-file repositories and over   *)
(* the manifest and checksum files have a single job.                      *)
(***************************************************************************)
AllFaults == {"mkdir", "disk", "fetch", "manifest", "verify", "open", "copy", "delete", "size"}

\* several jobs under the scheduler
InitSched ==
    InitWith({c \in Configs(0..MaxJobs, 0..MaxWorkers, 0..MaxRetries, {DefaultBackoff}, {TRUE}) :
                 c.N + c.maxRetries <= MaxLoad},
             {RemotePlain}, {{"disk", "fetch"}, {"fetch", "interrupt"}})

\* one job, every step of which can fail, with many retries
InitRetry ==
    InitWith(Configs({1}, 1..2, 0..MaxRetriesJob, {1, DefaultBackoff}, BOOLEAN),
             {RemotePlain}, {AllFaults})

\* one job over the repositories with split files
InitMerge ==
    InitWith(Configs({1}, {1}, 1..MaxRetries, {DefaultBackoff}, {TRUE}),
             {RemoteOnePart, RemoteSplit, RemoteTail, RemoteTwoGroups},
             {{"open", "copy", "delete", "size"}})

\* one job whose manifest and checksums are written and verified
InitFiles ==
    InitWith(Configs({1}, {1}, 1..MaxRetries, {DefaultBackoff}, {FALSE}),
             {RemoteTree, RemoteSums}, {{"size"}})

Init == InitSched \/ InitRetry \/ InitMerge \/ InitFiles

(***************************************************************************)
(* download_model.                                                         *)
(***************************************************************************)
ManifestName == <<"m", "a", "n", "i", "f", "e", "s", "t", ".", "t", "x", "t">>

\* the free space shutil.disk_usage may report, in GB
FreeGb == IF "disk" \in faults THEN {DefaultMinDisk - 1, DefaultMinDisk} ELSE {DefaultMinDisk}

\* the free space taken in MB and compared against a minimum given in GB
CheckDiskSpaceRaisesMb(freeGb, requiredGb) == freeGb * 1024 < requiredGb

\* check_disk_space raises
CheckDiskSpaceRaises(freeGb, requiredGb) == freeGb < requiredGb

\* the exponent taken from the attempt number itself
BackoffWaitFromAttempt(backoff, attempt) == backoff * 2 ^ attempt

\* wait = backoff * (2 ** (attempt - 1))
BackoffWait(backoff, attempt) == backoff * 2 ^ (attempt - 1)

\* the comparison taken inclusively
RetryRemainsInclusive(attempt, maxRetries) == attempt <= maxRetries

\* if attempt < max_retries
RetryRemains(attempt, maxRetries) == attempt < maxRetries

\* the call has ended: it returned, raised at the gate, or was cut short in
\* the main thread by KeyboardInterrupt, which no except clause of it catches
Finished(r) == r.pc \in {"returned", "raised", "interrupted"}

InFlight == {j \in Jobs : job[j].pc \notin {"queued", "returned", "raised", "interrupted"}}

\* the next iteration of "for attempt in range(1, max_retries + 1)"; the
\* function returns None when the range is exhausted
EnterAttempt(r, j, a) ==
    IF a <= cfg.maxRetries
    THEN [r EXCEPT !.pc = "fetch", !.attempt = a]
    ELSE [r EXCEPT !.pc = "returned", !.ret = NoneResult(j)]

\* an except clause that sleeps before it looks at the attempts left
HandledWaitsAlways(r, j, err) ==
    LET r1 == [r EXCEPT !.lastErr = err,
                        !.fetchFails = IF err = "fetch" THEN @ + 1 ELSE @,
                        !.postFails = IF err = "fetch" THEN @ ELSE @ + 1,
                        !.waits = Append(@, BackoffWait(cfg.backoff, r.attempt))]
    IN  IF RetryRemains(r.attempt, cfg.maxRetries)
        THEN [r1 EXCEPT !.pc = "backoff"]
        ELSE [r1 EXCEPT !.pc = "returned", !.ret = FailedResult(j, err)]

\* the except clause of download_model
Handled(r, j, err) ==
    LET r1 == [r EXCEPT !.lastErr = err,
                        !.fetchFails = IF err = "fetch" THEN @ + 1 ELSE @,
                        !.postFails = IF err = "fetch" THEN @ ELSE @ + 1]
    IN  IF RetryRemains(r.attempt, cfg.maxRetries)
        THEN [r1 EXCEPT !.pc = "backoff",
                        !.waits = Append(@, BackoffWait(cfg.backoff, r.attempt))]
        ELSE [r1 EXCEPT !.pc = "returned", !.ret = FailedResult(j, err)]

AfterManifest == IF cfg.skipVerify THEN "merge" ELSE "verify"

AfterFetch == IF cfg.skipManifest THEN AfterManifest ELSE "manifest"

\* a step that must wait while any other job sleeps in time.sleep
JobStepExclusive(j, r, d) ==
    /\ \A k \in Jobs \ {j} : job[k].pc # "backoff"
    /\ job' = [job EXCEPT ![j] = IF Finished(r)
                                 THEN [r EXCEPT !.endedAt =
                                          Cardinality({k \in Jobs : Finished(job[k])}) + 1]
                                 ELSE r]
    /\ dir' = [dir EXCEPT ![j] = d]
    /\ doneOrder' = IF Finished(r) /\ mainPc = "pool" THEN Append(doneOrder, j) ELSE doneOrder
    /\ UNCHANGED <<cfg, remote, mainPc, results, summary, snap, faults, interrupted>>

\* one step of job j: its frame becomes r and its directory d; a call that
\* ends is numbered after the calls that ended before it
JobStep(j, r, d) ==
    /\ job' = [job EXCEPT ![j] = IF Finished(r)
                                 THEN [r EXCEPT !.endedAt =
                                          Cardinality({k \in Jobs : Finished(job[k])}) + 1]
                                 ELSE r]
    /\ dir' = [dir EXCEPT ![j] = d]
    /\ doneOrder' = IF Finished(r) /\ mainPc = "pool" THEN Append(doneOrder, j) ELSE doneOrder
    /\ UNCHANGED <<cfg, remote, mainPc, results, summary, snap, faults, interrupted>>

\* check_disk_space(hf_home, min_disk), then the first iteration of the loop
CheckGate(j) ==
    /\ job[j].pc = "gate"
    /\ \E free \in FreeGb :
          LET r == [job[j] EXCEPT !.gateChecks = @ + 1, !.freeSeen = free]
          IN  IF CheckDiskSpaceRaises(free, cfg.minDisk)
              THEN JobStep(j, [r EXCEPT !.pc = "raised"], dir[j])
              ELSE JobStep(j, EnterAttempt(r, j, 1), dir[j])

\* snapshot_download(repo_id, local_dir, allow_patterns)
Fetch(j) ==
    /\ job[j].pc = "fetch"
    /\ LET r == [job[j] EXCEPT !.fetchCalls = @ + 1]
       IN  \/ JobStep(j, [r EXCEPT !.pc = AfterFetch, !.fetchOks = @ + 1],
                      Overlay(dir[j], remote[j]))
           \/ "fetch" \in faults /\ JobStep(j, Handled(r, j, "fetch"), dir[j])

\* write_manifest(local_dir, logger): the file is opened for writing before
\* the walk, so the walk lists it
WriteManifest(j) ==
    /\ job[j].pc = "manifest"
    /\ \/ JobStep(j, [job[j] EXCEPT !.pc = AfterManifest,
                                    !.manifest = (DOMAIN dir[j]) \cup {ManifestName}],
                  dir[j])
       \/ "manifest" \in faults /\ JobStep(j, Handled(job[j], j, "manifest"), dir[j])

\* the entries of os.listdir(local_dir) with a checksum extension
ChecksumFiles(d) ==
    {n \in DOMAIN d :
        /\ \A i \in 1..Len(n) : n[i] # "/"
        /\ EndsWith(n, Sha256Ext) \/ EndsWith(n, Sha256SumExt) \/ EndsWith(n, Md5Ext)}

\* parts[-1].lstrip('*')
RECURSIVE LStripStar(_)
LStripStar(token) ==
    IF token # <<>> /\ Head(token) = "*" THEN LStripStar(Tail(token)) ELSE token

\* hashlib.sha256() if chk.endswith('sha256') else hashlib.md5()
HashFor(chk) == IF EndsWith(chk, Sha256Tail) THEN "sha256" ELSE "md5"

\* if actual == expected
DigestsEqual(actual, expected) == actual = expected

\* what verify_checksums logs for one line of manifest chk
CheckLine(d, chk, line) ==
    LET expected == line[1]
        ref == LStripStar(line[Len(line)])
    IN  IF ref \notin DOMAIN d
        THEN [chk |-> chk, ref |-> ref, expected |-> expected, bytes |-> <<>>,
              outcome |-> "missing"]
        ELSE [chk |-> chk, ref |-> ref, expected |-> expected, bytes |-> d[ref],
              outcome |-> IF DigestsEqual(HexDigest(HashFor(chk), d[ref]), expected)
                          THEN "ok" ELSE "mismatch"]

\* the log of verify_checksums: one entry per line of two tokens or more
CheckAll(d) ==
    UNION {{CheckLine(d, chk, d[chk][i]) : i \in {k \in 1..Len(d[chk]) : Len(d[chk][k]) >= 2}} :
           chk \in ChecksumFiles(d)}

\* verify_checksums raising on the first entry that is missing or differs
VerifyChecksumsStrict(j) ==
    /\ job[j].pc = "verify"
    /\ IF \A c \in CheckAll(dir[j]) : c.outcome = "ok"
       THEN JobStep(j, [job[j] EXCEPT !.pc = "merge", !.checks = CheckAll(dir[j])], dir[j])
       ELSE JobStep(j, Handled(job[j], j, "verify"), dir[j])

\* verify_checksums(local_dir, logger): a missing file or a digest that
\* differs is logged and the loop goes on; listing or reading may raise
VerifyChecksums(j) ==
    /\ job[j].pc = "verify"
    /\ \/ JobStep(j, [job[j] EXCEPT !.pc = "merge", !.checks = CheckAll(dir[j])], dir[j])
       \/ "verify" \in faults /\ JobStep(j, Handled(job[j], j, "verify"), dir[j])

\* merge_gguf_parts up to the opening of the output file
MergeBegin(j) ==
    /\ job[j].pc = "merge"
    /\ LET parts == GlobParts(dir[j])
           full == FullName(parts)
           r == [job[j] EXCEPT !.mparts = parts, !.mentry = dir[j], !.mcopied = 0, !.mclosed = FALSE,
                               !.mdeleted = {}, !.mdelFailed = {}, !.midx = 1]
       IN  IF Len(parts) <= 1
           THEN JobStep(j, [r EXCEPT !.pc = "size", !.mfull = NoName, !.merged = NoName], dir[j])
           ELSE \/ JobStep(j, [r EXCEPT !.pc = "merge_copy", !.mfull = full],
                           WriteFile(dir[j], full, <<>>))
                \/ "open" \in faults
                   /\ JobStep(j, Handled([r EXCEPT !.mfull = full], j, "merge"), dir[j])

\* what copying the output file into itself can append: the bytes already
\* flushed, none of them, or all
SelfCopyChoices(bytes) == {SubSeq(bytes, 1, n) : n \in 0..Len(bytes)}

\* one iteration of the copy loop; leaving the loop closes the output
MergeCopy(j) ==
    /\ job[j].pc = "merge_copy"
    /\ LET r == job[j]
           part == r.mparts[r.midx]
           last == r.midx = Len(r.mparts)
           r2 == IF last
                 THEN [r EXCEPT !.pc = "merge_delete", !.midx = 1, !.mcopied = @ + 1,
                                !.mclosed = TRUE]
                 ELSE [r EXCEPT !.midx = @ + 1, !.mcopied = @ + 1]
           src == IF part = r.mfull THEN SelfCopyChoices(dir[j][r.mfull]) ELSE {dir[j][part]}
       IN  \/ \E bytes \in src :
                 JobStep(j, r2, WriteFile(dir[j], r.mfull, dir[j][r.mfull] \o bytes))
           \/ "copy" \in faults /\ JobStep(j, Handled(r, j, "merge"), dir[j])

\* the cleanup loop without its try/except: a failed os.remove raises
MergeDeleteUncaught(j) ==
    /\ job[j].pc = "merge_delete"
    /\ LET r == job[j]
           part == r.mparts[r.midx]
           last == r.midx = Len(r.mparts)
           r2 == IF last THEN [r EXCEPT !.pc = "size", !.merged = r.mfull]
                 ELSE [r EXCEPT !.midx = @ + 1]
       IN  \/ JobStep(j, [r2 EXCEPT !.mdeleted = @ \cup {part}], RemoveFile(dir[j], part))
           \/ "delete" \in faults
              /\ JobStep(j, Handled([r EXCEPT !.mdelFailed = @ \cup {part}], j, "merge"), dir[j])

\* one iteration of the cleanup loop; a failed os.remove is only logged
MergeDelete(j) ==
    /\ job[j].pc = "merge_delete"
    /\ LET r == job[j]
           part == r.mparts[r.midx]
           last == r.midx = Len(r.mparts)
           r2 == IF last THEN [r EXCEPT !.pc = "size", !.merged = r.mfull]
                 ELSE [r EXCEPT !.midx = @ + 1]
       IN  \/ JobStep(j, [r2 EXCEPT !.mdeleted = @ \cup {part}], RemoveFile(dir[j], part))
           \/ "delete" \in faults
              /\ JobStep(j, [r2 EXCEPT !.mdelFailed = @ \cup {part}], dir[j])

\* get_dir_size_gb and the ok result; manifest.txt is tracked apart from dir
\* and not counted
GetSize(j) ==
    /\ job[j].pc = "size"
    /\ \/ JobStep(j, [job[j] EXCEPT !.pc = "returned",
                                    !.ret = OkResult(j, DirSize(dir[j]), job[j].merged)],
                  dir[j])
       \/ "size" \in faults /\ JobStep(j, Handled(job[j], j, "size"), dir[j])

\* time.sleep(wait) returns and the loop takes its next iteration
BackoffDone(j) ==
    /\ job[j].pc = "backoff"
    /\ JobStep(j, EnterAttempt(job[j], j, job[j].attempt + 1), dir[j])


\* the steps of one call of download_model
JobNext(j) ==
    \/ CheckGate(j)
    \/ Fetch(j)
    \/ WriteManifest(j)
    \/ VerifyChecksums(j)
    \/ MergeBegin(j)
    \/ MergeCopy(j)
    \/ MergeDelete(j)
    \/ GetSize(j)
    \/ BackoffDone(j)

(***************************************************************************)
(* main: the scheduler and the summary.                                    *)
(***************************************************************************)
MainStep(pc, res) ==
    /\ mainPc' = pc
    /\ results' = res
    /\ UNCHANGED <<cfg, remote, summary, job, dir, faults, interrupted>>

\* lines 143-144 of a job that starts: HF_HOME is set and the cache
\* directory made (which can fail), leaving the job before its gate
Entered(r, mkOk) ==
    [r EXCEPT !.pc = IF mkOk THEN "gate" ELSE "raised", !.envWrites = @ + 1]

MkdirOk == IF "mkdir" \in faults THEN BOOLEAN ELSE {TRUE}

\* if args.workers > 1
UsesPool(w) == w > 1

\* every job is submitted, then as_completed(futures) is called
MainStart ==
    /\ mainPc = "start"
    /\ mainPc' = IF UsesPool(cfg.W) THEN "submitted" ELSE "seq"
    /\ UNCHANGED <<cfg, remote, results, summary, job, dir, doneOrder, snap, faults, interrupted>>

\* as_completed notes the futures that have already finished
AsCompleted ==
    /\ mainPc = "submitted"
    /\ mainPc' = "pool"
    /\ snap' = {j \in Jobs : Finished(job[j])}
    /\ UNCHANGED <<cfg, remote, results, summary, job, dir, doneOrder, faults, interrupted>>

\* a pool that starts a thread for every submitted job
WorkerFreeUnbounded(inFlight, w) == TRUE

\* a worker thread of ThreadPoolExecutor(max_workers=W) is free to take a job
WorkerFree(inFlight, w) == Cardinality(inFlight) < w

\* the work queue is served in submission order
NextQueued(j) == job[j].pc = "queued" /\ \A i \in Jobs : i < j => job[i].pc # "queued"

PoolStart(j) ==
    /\ mainPc \in {"submitted", "pool", "shutdown", "stopping"}
    /\ NextQueued(j)
    /\ WorkerFree(InFlight, cfg.W)
    /\ \E mkOk \in MkdirOk : JobStep(j, Entered(job[j], mkOk), dir[j])

Collected == {results[i].repo : i \in 1..Len(results)}

\* the future as_completed yields next: any of those finished at its call,
\* then the others in the order they finish
Yielded(j) ==
    IF snap # {} THEN j \in snap
    ELSE doneOrder # <<>> /\ j = Head(doneOrder)

\* results.append(fut.result()); a job that raised raises here, and leaving
\* the with block waits for the jobs still queued or running
PoolCollect(j) ==
    /\ mainPc = "pool"
    /\ Yielded(j)
    /\ snap' = snap \ {j}
    /\ doneOrder' = IF snap # {} THEN doneOrder ELSE Tail(doneOrder)
    /\ IF job[j].pc = "raised"
       THEN MainStep("shutdown", results)
       ELSE MainStep("pool", Append(results, job[j].ret))

\* every future has been yielded
PoolExit ==
    /\ mainPc = "pool"
    /\ Len(results) = cfg.N
    /\ UNCHANGED <<snap, doneOrder>>
    /\ MainStep("summary", results)

\* shutdown(wait=True), then the exception leaves main
Shutdown ==
    /\ mainPc = "shutdown"
    /\ \A j \in Jobs : Finished(job[j])
    /\ UNCHANGED <<snap, doneOrder>>
    /\ MainStep("crashed", results)

\* any job that has not been collected
SeqNextLoose(j) == j >= Len(results) + 1

\* the job the sequential loop calls next
SeqNext(j) == j = Len(results) + 1

SeqStart(j) ==
    /\ mainPc = "seq"
    /\ SeqNext(j)
    /\ job[j].pc = "queued"
    /\ \E mkOk \in MkdirOk : JobStep(j, Entered(job[j], mkOk), dir[j])

\* the call of download_model for job j begins
StartJob(j) == PoolStart(j) \/ SeqStart(j)

\* results.append(download_model(...)); an exception leaves main
SeqCollect(j) ==
    /\ mainPc = "seq"
    /\ SeqNext(j)
    /\ Finished(job[j])
    /\ UNCHANGED <<snap, doneOrder>>
    /\ IF job[j].pc = "raised"
       THEN MainStep("crashed", results)
       ELSE MainStep("seq", Append(results, job[j].ret))

SeqExit ==
    /\ mainPc = "seq"
    /\ Len(results) = cfg.N
    /\ UNCHANGED <<snap, doneOrder>>
    /\ MainStep("summary", results)

\* the summary lines of the results before the first None, on which r.get
\* raises AttributeError
RECURSIVE SummaryLines(_)
SummaryLines(res) ==
    IF res = <<>> \/ Head(res).status = "None" THEN <<>>
    ELSE <<[repo |-> Head(res).repo, ok |-> Head(res).status = "ok"]>>
         \o SummaryLines(Tail(res))

Summarize ==
    /\ mainPc = "summary"
    /\ summary' = SummaryLines(results)
    /\ mainPc' = IF \E i \in 1..Len(results) : results[i].status = "None"
                 THEN "crashed" ELSE "done"
    /\ UNCHANGED <<cfg, remote, results, job, dir, doneOrder, snap, faults, interrupted>>

\* KeyboardInterrupt is raised in the main thread. In the sequential loop
\* it cuts the running call short and leaves main; under the executor it
\* leaves the with block, whose exit is shutdown(wait=True).
Interrupt ==
    /\ "interrupt" \in faults
    /\ ~interrupted
    /\ mainPc \in {"start", "seq", "submitted", "pool", "shutdown"}
    /\ interrupted' = TRUE
    /\ IF mainPc \in {"start", "seq"}
       THEN /\ mainPc' = "exit1"
            /\ job' = [j \in Jobs |-> IF j \in InFlight
                                       THEN [job[j] EXCEPT !.pc = "interrupted"]
                                       ELSE job[j]]
       ELSE /\ mainPc' = "stopping"
            /\ job' = job
    /\ UNCHANGED <<cfg, remote, results, summary, dir, doneOrder, snap, faults>>

\* the workers have run every submitted job; KeyboardInterrupt reaches the
\* handler of __main__, which calls exit(1)
StopExit ==
    /\ mainPc = "stopping"
    /\ \A j \in Jobs : Finished(job[j])
    /\ mainPc' = "exit1"
    /\ UNCHANGED <<cfg, remote, results, summary, job, dir, doneOrder, snap, faults, interrupted>>

Next ==
    \/ MainStart
    \/ AsCompleted
    \/ \E j \in Jobs : PoolStart(j)
    \/ \E j \in Jobs : PoolCollect(j)
    \/ PoolExit
    \/ Shutdown
    \/ \E j \in Jobs : SeqStart(j)
    \/ \E j \in Jobs : SeqCollect(j)
    \/ SeqExit
    \/ \E j \in Jobs : CheckGate(j)
    \/ \E j \in Jobs : Fetch(j)
    \/ \E j \in Jobs : WriteManifest(j)
    \/ \E j \in Jobs : VerifyChecksums(j)
    \/ \E j \in Jobs : MergeBegin(j)
    \/ \E j \in Jobs : MergeCopy(j)
    \/ \E j \in Jobs : MergeDelete(j)
    \/ \E j \in Jobs : GetSize(j)
    \/ \E j \in Jobs : BackoffDone(j)
    \/ Summarize
    \/ Interrupt
    \/ StopExit

Spec == Init /\ [][Next]_vars

\* the steps of the main thread
MainNext ==
    \/ MainStart
    \/ AsCompleted
    \/ \E j \in Jobs : PoolCollect(j)
    \/ PoolExit
    \/ Shutdown
    \/ \E j \in Jobs : SeqCollect(j)
    \/ SeqExit
    \/ Summarize
    \/ StopExit

\* the steps of the thread that runs job j
ThreadNext(j) == j \in Jobs /\ (StartJob(j) \/ JobNext(j))

\* Every call made by a job returns (snapshot_download, time.sleep and the
\* file operations are blocking calls that end) and the interpreter runs
\* every thread that can run: the main thread and each job's thread take
\* the step they are ready for. The interrupt is the user's and is not owed.
Fairness == WF_vars(MainNext) /\ \A j \in 1..MaxJobs : WF_vars(ThreadNext(j))

FairSpec == Spec /\ Fairness


(***************************************************************************)
(* Properties.                                                             *)
(***************************************************************************)
Fails(r) == r.fetchFails + r.postFails

SchedulingEnded == mainPc \in {"summary", "done", "crashed"}

\* C1: when main's scheduling phase has ended, results holds exactly one
\* record per configured job, each with status ok or failed.
C1_OneResultPerJob ==
    SchedulingEnded =>
        /\ Len(results) = cfg.N
        /\ \A j \in Jobs : Cardinality({i \in 1..Len(results) : results[i].repo = j}) = 1
        /\ \A i \in 1..Len(results) : results[i].status \in {"ok", "failed"}

\* C2: a job's free-space check is made at most once, it has been made
\* exactly once before any fetch of the job, and a job whose check found less
\* free space than the minimum never invokes the fetch.
C2_GateBeforeFetch ==
    \A j \in Jobs :
        /\ job[j].gateChecks <= 1
        /\ job[j].fetchCalls > 0 => job[j].gateChecks = 1
        /\ job[j].pc \in {"fetch", "manifest", "verify", "merge", "merge_copy",
                          "merge_delete", "size", "backoff"} => job[j].gateChecks = 1
        /\ (job[j].gateChecks = 1 /\ job[j].freeSeen < cfg.minDisk) =>
               job[j].fetchCalls = 0 /\ job[j].pc = "raised"

C2_Witness ==
    \E i, j \in Jobs :
        /\ cfg.maxRetries >= 2
        /\ job[i].gateChecks = 1 /\ job[i].freeSeen < cfg.minDisk /\ job[i].pc = "raised"
        /\ job[j].gateChecks = 1 /\ job[j].fetchCalls = 2

C3_State ==
    \A j \in Jobs :
        /\ job[j].fetchCalls <= cfg.maxRetries
        /\ (job[j].pc = "returned" /\ job[j].ret.status = "failed")
               <=> (cfg.maxRetries >= 1 /\ Fails(job[j]) = cfg.maxRetries)
        /\ (job[j].pc = "returned" /\ job[j].ret.status = "failed") =>
               job[j].attempt = cfg.maxRetries /\ job[j].ret.error = job[j].lastErr

C3_Step == \A j \in Jobs : Finished(job[j]) => job'[j] = job[j]

\* C3: a job invokes the fetch at most maxRetries times; it has returned
\* failed exactly when maxRetries attempts have failed (so never while an
\* attempt remains), and a job that has returned or raised takes no more step.
C3_AtMostMaxRetries == []C3_State /\ [][C3_Step]_vars

C3_Witness ==
    \E j \in Jobs :
        /\ cfg.maxRetries >= 2
        /\ job[j].pc = "returned" /\ job[j].ret.status = "failed"
        /\ job[j].fetchCalls = cfg.maxRetries

DefaultDelays == <<5, 10, 20, 40>>

\* C4: the k-th wait of a job follows its k-th failed attempt and lasts
\* backoff * 2^(k-1) seconds: 5, 10, 20, 40 for a backoff of 5.
C4_BackoffSequence ==
    \A j \in Jobs :
        /\ Len(job[j].waits) <= Fails(job[j])
        /\ job[j].pc = "backoff" => Len(job[j].waits) = Fails(job[j])
        /\ \A k \in 1..Len(job[j].waits) :
               /\ job[j].waits[k] = cfg.backoff * 2 ^ (k - 1)
               /\ (cfg.backoff = DefaultBackoff /\ k <= Len(DefaultDelays)) =>
                      job[j].waits[k] = DefaultDelays[k]

C4_Witness == \E j \in Jobs : job[j].waits = DefaultDelays

\* C5: a job invokes the fetch once per failed fetch and at most once more,
\* and waits in backoff only after a failed fetch: a post-processing failure
\* after a successful fetch causes neither a fetch nor a wait.
C5_NoRetryAfterFetched ==
    \A j \in Jobs :
        /\ job[j].fetchOks <= 1
        /\ job[j].fetchCalls <= job[j].fetchFails + 1
        /\ Len(job[j].waits) <= job[j].fetchFails


C6_State == UsesPool(cfg.W) => Cardinality(InFlight) <= cfg.W

C6_Step ==
    UsesPool(cfg.W) =>
        \A j \in Jobs :
            (job[j].pc = "queued" /\ job'[j].pc # "queued") => Cardinality(InFlight) < cfg.W

\* C6: with W > 1 at most W jobs are inside download_model at any time, and
\* a queued job starts only from a state with fewer than W jobs in flight.
C6_AtMostWInFlight == []C6_State /\ [][C6_Step]_vars

C6_Witness ==
    /\ UsesPool(cfg.W)
    /\ cfg.N > cfg.W
    /\ Cardinality(InFlight) = cfg.W
    /\ \E i, j \in Jobs : i < j /\ Finished(job[i]) /\ j > cfg.W /\ j \in InFlight

\* C7: with W <= 1 a job has left the queue only if every job configured
\* before it has returned and its result is in the results list.
C7_Sequential ==
    ~UsesPool(cfg.W) =>
        \A i, j \in Jobs :
            (i < j /\ job[j].pc # "queued") =>
                /\ job[i].pc = "returned"
                /\ i <= Len(results)
                /\ results[i] = job[i].ret

C7_Witness ==
    /\ ~UsesPool(cfg.W)
    /\ \E i, j \in Jobs :
          /\ i < j
          /\ Len(job[i].waits) >= 1
          /\ job[i].pc = "returned"
          /\ job[j].pc = "backoff"

\* C8: when main has ended, every job that did not itself raise has
\* reached a terminal state, its result is in the results list, and the
\* summary holds one line per job that returned a record.
C8_FailureIsolated ==
    (mainPc \in {"done", "crashed"} /\ cfg.maxRetries >= 1) =>
        /\ \A j \in Jobs : Finished(job[j])
        /\ \A j \in Jobs : job[j].pc = "returned" => j \in Collected
        /\ \A j \in Jobs :
               job[j].pc = "returned" =>
                   \E i \in 1..Len(summary) : summary[i].repo = j

FailedNow(r) == r.pc = "returned" /\ r.ret.status = "failed"

Merging(r) == r.pc \in {"merge", "merge_copy", "merge_delete"}

C9_State ==
    \A j \in Jobs :
        /\ Merging(job[j]) =>
               job[j].fetchOks >= 1 /\ job[j].fetchCalls = job[j].attempt
        /\ job[j].mclosed => job[j].mcopied = Len(job[j].mparts)
        /\ (job[j].mdeleted # {} \/ job[j].mdelFailed # {}) => job[j].mclosed
        /\ (job[j].lastErr = "merge" /\ (job[j].pc = "backoff" \/ FailedNow(job[j]))) =>
               \A i \in 1..Len(job[j].mparts) : job[j].mparts[i] \in DOMAIN dir[j]

C9_Step ==
    \A j \in Jobs :
        LET r == job[j]
        IN  /\ (\E name \in DOMAIN dir[j] : name \notin DOMAIN dir'[j]) =>
                   r.pc = "merge_delete" /\ r.mclosed /\ r.mcopied = Len(r.mparts)
            /\ (r.pc = "merge_delete" /\ job'[j].mdelFailed # r.mdelFailed) =>
                   /\ dir'[j] = dir[j]
                   /\ job'[j].lastErr = r.lastErr
                   /\ job'[j].waits = r.waits
                   /\ IF r.midx < Len(r.mparts)
                      THEN job'[j].pc = "merge_delete" /\ job'[j].midx = r.midx + 1
                      ELSE job'[j].pc = "size" /\ job'[j].merged = r.mfull

\* C9: merge_gguf_parts runs only after the fetch of the same attempt has
\* succeeded; a file disappears from the directory only in the cleanup loop,
\* after every part was copied and the output closed; after a failed merge
\* write every part is still there; and a failed deletion changes no file,
\* raises nothing, and the loop goes on to the next part or returns the path.
C9_MergeThenDelete == []C9_State /\ [][C9_Step]_vars

C9_Witness ==
    \E j \in Jobs :
        /\ job[j].pc = "returned" /\ job[j].ret.status = "ok"
        /\ job[j].mdelFailed # {} /\ job[j].mdeleted # {}
        /\ job[j].ret.merged \in DOMAIN dir[j]


\* the files of directory d that the part pattern matches
Matching(d) == {name \in DOMAIN d : GlobMatch(name)}

\* the names of the parts of the group <prefix>-0000K-of-0000N.gguf
GroupOf(prefix, n) == {PartName(prefix, k, n) : k \in 1..n}

\* the parts of a group present in names, by ascending part number
AscendingParts(prefix, n, names) ==
    LET ks == {k \in 1..n : PartName(prefix, k, n) \in names}
    IN  [i \in 1..Cardinality(ks) |->
            PartName(prefix, CHOOSE k \in ks : Cardinality({x \in ks : x < k}) = i - 1, n)]

LexAscending(seq) == \A a, b \in 1..Len(seq) : a < b => StrLess(seq[a], seq[b])

\* merge_gguf_parts has just returned to download_model
MergeReturned(r) == r.pc = "size"

NoOpOnFewParts(r, d) ==
    Cardinality(Matching(r.mentry)) <= 1 => r.merged = NoName /\ d = r.mentry

MergedOutput(r, d, prefix, n) ==
    LET names == Matching(r.mentry)
        order == AscendingParts(prefix, n, names)
    IN  /\ LexAscending(order)
        /\ r.merged = prefix \o FullSuffix
        /\ r.merged \in DOMAIN d
        /\ d[r.merged] = ConcatFiles(r.mentry, order)

\* C10 as claimed: whenever the matching files are two or more parts of one
\* group, the output is <prefix>-full.gguf holding the parts' bytes in order,
\* its path is returned and no part exists afterwards; with at most one
\* matching file nothing is returned and the directory is unchanged.
C10_AsClaimed ==
    \A j \in Jobs :
        MergeReturned(job[j]) =>
            /\ NoOpOnFewParts(job[j], dir[j])
            /\ \A prefix \in Prefixes, n \in 1..MaxParts :
                   LET names == Matching(job[j].mentry)
                   IN  (Cardinality(names) >= 2 /\ names \subseteq GroupOf(prefix, n)) =>
                           /\ MergedOutput(job[j], dir[j], prefix, n)
                           /\ names \cap DOMAIN dir[j] = {}

\* C10: whenever the matching files are two or more parts of one group and
\* part 00001 is among them, the output is <prefix>-full.gguf holding the
\* parts' bytes in order, its path is returned, and the parts that remain
\* are exactly those whose removal failed; with at most one matching file
\* nothing is returned and the directory is unchanged.
C10_MergeConcatenates ==
    \A j \in Jobs :
        MergeReturned(job[j]) =>
            /\ NoOpOnFewParts(job[j], dir[j])
            /\ \A prefix \in Prefixes, n \in 1..MaxParts :
                   LET names == Matching(job[j].mentry)
                   IN  (/\ Cardinality(names) >= 2
                        /\ names \subseteq GroupOf(prefix, n)
                        /\ PartName(prefix, 1, n) \in names) =>
                           /\ MergedOutput(job[j], dir[j], prefix, n)
                           /\ names \cap DOMAIN dir[j] = job[j].mdelFailed

C10_Witness ==
    \E j \in Jobs :
        /\ MergeReturned(job[j])
        /\ Matching(job[j].mentry) = GroupOf(PrefixM, 2)
        /\ job[j].merged = PrefixM \o FullSuffix
        /\ dir[j][job[j].merged] = <<11, 12>>
        /\ Matching(dir[j]) = {}

(***************************************************************************)
(* Manifest and checksums.                                                 *)
(***************************************************************************)
\* the manifest has just been written in this attempt
ManifestWritten(r) == ~cfg.skipManifest /\ r.pc \in {"verify", "merge"}

\* C11: the lines written to manifest.txt are the relative paths of the
\* regular files under the directory other than manifest.txt itself, on a
\* first run and on a re-run.
C11_ManifestListsFiles ==
    \A j \in Jobs :
        ManifestWritten(job[j]) => job[j].manifest = (DOMAIN dir[j]) \ {ManifestName}

\* the algorithm a checksum manifest's extension names
ImpliedHash(chk) == IF EndsWith(chk, Md5Ext) THEN "md5" ELSE "sha256"

EqualIgnoringCase(actual, expected) ==
    actual.alg = expected.alg /\ actual.of = expected.of

\* C12: every entry of a checksum manifest whose file exists is reported
\* verified exactly when the file's digest under the algorithm its extension
\* names (256-bit for .sha256 and .sha256sum, 128-bit for .md5) equals the
\* expected digest compared without regard to letter case, and mismatched
\* otherwise.
C12_VerifiedIffDigestMatches ==
    \A j \in Jobs :
        \A c \in job[j].checks :
            c.outcome # "missing" =>
                (c.outcome = "ok" <=>
                    EqualIgnoringCase(HexDigest(ImpliedHash(c.chk), c.bytes), c.expected))

\* the lines of two tokens or more in the checksum manifests of d
Entries(d) ==
    UNION {{<<chk, i>> : i \in {k \in 1..Len(d[chk]) : Len(d[chk][k]) >= 2}} :
           chk \in ChecksumFiles(d)}

C13_State ==
    \A j \in Jobs :
        (job[j].pc = "returned" /\ job[j].fetchOks >= 1 /\ job[j].postFails = 0) =>
            job[j].ret.status = "ok"

C13_Step ==
    \A j \in Jobs :
        (job[j].pc = "verify" /\ job'[j] # job[j] /\ "verify" \notin faults) =>
            /\ job'[j].pc = "merge"
            /\ job'[j].attempt = job[j].attempt
            /\ job'[j].waits = job[j].waits
            /\ job'[j].postFails = job[j].postFails
            /\ job'[j].lastErr = job[j].lastErr
            /\ Cardinality(job'[j].checks) = Cardinality(Entries(dir[j]))

\* C13: a file that is missing or a digest that differs never raises out of
\* verify_checksums, starts no retry or wait and leaves the job's status
\* alone: verification goes on to the remaining entries, and a job whose
\* fetch succeeded returns ok.
C13_ChecksumsObservational == []C13_State /\ [][C13_Step]_vars

C13_Witness ==
    \E j \in Jobs :
        /\ job[j].pc = "returned"
        /\ job[j].ret.status = "ok"
        /\ job[j].waits = <<>>
        /\ \E c \in job[j].checks : c.outcome = "missing"
        /\ \E c \in job[j].checks : c.outcome = "mismatch"
        /\ \E c \in job[j].checks : c.outcome = "ok"

(***************************************************************************)
(* The shared environment.                                                 *)
(***************************************************************************)
C14_State == \A j \in Jobs : job[j].envWrites = 0

C14_Step ==
    \A j \in Jobs : job'[j].envWrites > job[j].envWrites => InFlight = {}

\* C14: HF_HOME is written once, before any job starts, and never by a job:
\* no job writes it, and no step writes it while another job is running.
C14_HfHomeWrittenOnce == []C14_State /\ [][C14_Step]_vars

(***************************************************************************)
(* Interruption.                                                           *)
(***************************************************************************)
Exited == mainPc \in {"done", "crashed", "exit1"}

C15_State == (interrupted /\ Exited) => mainPc = "exit1"

C15_Step ==
    interrupted => \A j \in Jobs : job[j].pc = "queued" => job'[j].pc = "queued"

\* C15: once the interrupt has been delivered no job that has not started
\* is started, in the sequential loop and in the pool alike, and the process
\* exits with a non-zero status.
C15_InterruptStopsLaunching == []C15_State /\ [][C15_Step]_vars

(***************************************************************************)
(* Collection and summary.                                                 *)
(***************************************************************************)
\* the summary loop has run over a full results list
Summarized == mainPc \in {"done", "crashed"} /\ Len(results) = cfg.N

\* C16: in a run that allows every job an attempt, results are appended in
\* the order the jobs reach their terminal state, and the summary holds one
\* line per collected result in that order.
C16_CompletionOrder ==
    cfg.maxRetries >= 1 =>
        /\ \A i, k \in 1..Len(results) :
               i < k => job[results[i].repo].endedAt < job[results[k].repo].endedAt
        /\ Summarized =>
               /\ Len(summary) = Len(results)
               /\ \A i \in 1..Len(results) : summary[i].repo = results[i].repo

(***************************************************************************)
(* Backoff and the other jobs.                                             *)
(***************************************************************************)
\* the jobs in flight that are not sleeping between attempts
Busy == {k \in InFlight : job[k].pc # "backoff"}

OthersCanStep(j) == \A k \in InFlight \ {j} : ENABLED JobNext(k)

\* C17 as claimed: while a job is in backoff every other job in flight can
\* take a step, and a queued job can be started whenever fewer than W jobs
\* are attempting a fetch or post-processing.
C17_AsClaimed ==
    \A j \in Jobs :
        job[j].pc = "backoff" =>
            /\ OthersCanStep(j)
            /\ \A q \in Jobs :
                   (NextQueued(q) /\ Cardinality(Busy) < cfg.W) => ENABLED StartJob(q)

\* C17: while a job is in backoff every other job in flight can take a
\* step, and a queued job can be started whenever fewer than W jobs are in
\* flight, a job in backoff counting as in flight.
C17_BackoffSuspendsOnlyItself ==
    \A j \in Jobs :
        job[j].pc = "backoff" =>
            /\ OthersCanStep(j)
            /\ \A q \in Jobs :
                   (NextQueued(q) /\ Cardinality(InFlight) < cfg.W) => ENABLED StartJob(q)

C17_Witness ==
    \E j, k \in Jobs :
        /\ job[j].pc = "backoff"
        /\ job[k].pc = "fetch"
        /\ ENABLED Fetch(k)

(***************************************************************************)
(* Part groups.                                                            *)
(***************************************************************************)
\* the files a merge concatenates into its output
MergedFiles(r) == {r.mparts[i] : i \in 1..Len(r.mparts)}

\* C18: the files concatenated into one output are a single part group,
\* with one prefix before the part infix and one total-parts count; files of
\* two groups are never concatenated together.
C18_MergesOneGroup ==
    \A j \in Jobs :
        (job[j].pc \in {"merge_copy", "merge_delete"} \/ job[j].merged # NoName) =>
            \E prefix \in Prefixes, n \in 1..MaxParts :
                MergedFiles(job[j]) \subseteq GroupOf(prefix, n)

(***************************************************************************)
(* Waits and attempts.                                                     *)
(***************************************************************************)
OkNow(r) == r.pc = "returned" /\ r.ret.status = "ok"

C19_State ==
    \A j \in Jobs :
        /\ FailedNow(job[j]) =>
               /\ cfg.maxRetries >= 1
               /\ Fails(job[j]) = cfg.maxRetries
               /\ Len(job[j].waits) = cfg.maxRetries - 1
               /\ job[j].ret.error = job[j].lastErr
        /\ OkNow(job[j]) => Len(job[j].waits) = Fails(job[j])

C19_Step ==
    \A j \in Jobs :
        /\ (FailedNow(job'[j]) /\ ~FailedNow(job[j])) =>
               /\ job[j].pc # "backoff"
               /\ Fails(job'[j]) = Fails(job[j]) + 1
               /\ job'[j].waits = job[j].waits
               /\ job'[j].ret.error = job'[j].lastErr
        /\ job'[j].waits # job[j].waits =>
               /\ Len(job'[j].waits) = Len(job[j].waits) + 1
               /\ Fails(job'[j]) = Fails(job[j]) + 1
               /\ job[j].attempt < cfg.maxRetries
               /\ job'[j].pc = "backoff"

\* C19: download_model waits only between two attempts, never after the
\* last: a job that ends failed after maxRetries >= 1 failed attempts has
\* waited maxRetries - 1 times, a job that ends ok after k failed attempts
\* has waited k times, and the failed result is returned in the step of the
\* last failure with that attempt's error.
C19_WaitsBetweenAttempts == []C19_State /\ [][C19_Step]_vars

C19_Witness ==
    \E j \in Jobs :
        /\ FailedNow(job[j])
        /\ cfg.maxRetries = 3
        /\ Len(job[j].waits) = 2
        /\ job[j].fetchOks >= 1
        /\ job[j].ret.error = "size"

(***************************************************************************)
(* Termination.                                                            *)
(***************************************************************************)
LeftScheduling == mainPc \in {"summary", "done", "crashed", "exit1"}

AllJobsEnded == \A j \in Jobs : Finished(job[j])

\* C20: when every call a job makes returns and every thread is run, every
\* job of a run that is not interrupted reaches the end of its call and
\* main leaves the scheduling phase, for every N, every W >= 1 and every
\* maxRetries: no job stays queued or in backoff for ever.
C20_EveryJobEnds == <>(cfg.W < 1 \/ interrupted \/ (LeftScheduling /\ AllJobsEnded))

====
